---------------------------- MODULE Spec2Model ----------------------------
(***************************************************************************)
(* Model of the fleet webhook receiver of ocm-agent                        *)
(* (pkg/handlers/webhookrhobsreceiver.go).                                 *)
(*                                                                         *)
(* Several webhook requests (Workers) run processAlert concurrently        *)
(* against one versioned document store (the Kubernetes API) and one       *)
(* external send API (OCM SendServiceLog).  Every client call is one       *)
(* atomic step; the local computation between two calls belongs to the     *)
(* step of the call that follows it.  The clock may advance between any    *)
(* two steps.                                                              *)
(*                                                                         *)
(* The methods of ManagedFleetNotificationRecord (GetNotificationRecord-   *)
(* ByName, GetNotificationRecordItem, AddNotificationRecordItem,           *)
(* CanBeSent, UpdateNotificationRecordItem) live in the operator's API     *)
(* package, whose source is not part of this repository: they are          *)
(* modelled from the specification's data model (3) and resend policy      *)
(* (4.1, 4.3, 4.4).                                                        *)
(*                                                                         *)
(* Five specifications share the state:                                    *)
(*   Spec         concurrent processAlert invocations (the ledger, the     *)
(*                resend policy, the store's version check);               *)
(*   SpecBatch    one request from ServeHTTP to its response: the method   *)
(*                and body checks, the loop of processAMReceiver over the  *)
(*                batch, processAlert for each alert in turn;              *)
(*   SpecTemplate SpecBatch with the template's resend wait being edited   *)
(*                between two lookups;                                     *)
(*   SpecConditions  set operations applied to one condition set;          *)
(*   SpecChecker  responseChecker applied to one OCM reply.                *)
(***************************************************************************)
EXTENDS Integers, Sequences, FiniteSets, TLC

(* ------------------------------ bounds --------------------------------- *)
MaxTime == 2
MaxAlerts == 2
MaxBatch == 3

\* net/http status codes used by the handler and by responseChecker.
StatusOK == 200
StatusCreated == 201
StatusBadRequest == 400
StatusMethodNotAllowed == 405
StatusInternalServerError == 500
StatusCodes == 100..599

Workers == {"w1", "w2"}
MCs == {"mc1"}
HCs == {"hc1", "hc2"}
Names == {"n1"}
ResendWaits == {1, 2}

(* ------------------------------ state ---------------------------------- *)
VARIABLES
    store,      \* mcID -> the ManagedFleetNotificationRecord held by the API server
    now,        \* the clock (time.Now())
    pc,         \* worker -> the call processAlert is about to make
    alert,      \* worker -> the alert being processed and its template (fn)
    mfnr,       \* worker -> the local copy of the record (variable mfnr)
    fetched,    \* worker -> mfnr as it was when the resend policy was reached
    decidedAt,  \* worker -> the clock when CanBeSent was evaluated (-1: not yet)
    calls,      \* worker -> the client calls of this invocation, in order
    result,     \* worker -> what processAlert returned: "none", "nil", "err"
    atStart,    \* worker -> the stored record when processAlert was called
    sentAt,     \* <<mc, name, hc>> -> the successful SendServiceLog calls (time, wait)
    created,    \* mcID -> number of successful Create calls
    started,    \* number of processAlert invocations so far
    template,   \* name -> resend wait of the ManagedFleetNotification template
    req,        \* the webhook request being served by ServeHTTP, and its response
    ocmStatus,  \* the HTTP status of an OCM reply handed to responseChecker
    checked,    \* what responseChecker returned for it: "none", "nil", "err"
    ledger,     \* a condition set that set operations are applied to
    lastSet     \* the latest set operation applied to it

\* The request being served, the OCM reply being interpreted and the
\* condition set being written.
serving == <<req, ocmStatus, checked, ledger, lastSet>>

vars == <<store, now, pc, alert, mfnr, fetched, decidedAt, calls, result,
          atStart, sentAt, created, started, template, serving>>

Triples == MCs \X Names \X HCs

(* ------------------------- condition ledger ---------------------------- *)
ConditionAlertFiring == "AlertFiring"
ConditionAlertResolved == "AlertResolved"
ConditionServiceLogSent == "ServiceLogSent"
ConditionTypes == {ConditionAlertFiring, ConditionAlertResolved, ConditionServiceLogSent}

\* Index of the condition of type t in the list conds, 0 when absent.
ConditionIndex(conds, t) ==
    LET S == {i \in DOMAIN conds : conds[i].type = t}
    IN  IF S = {} THEN 0 ELSE CHOOSE i \in S : \A j \in S : i <= j

HasCondition(conds, t) == ConditionIndex(conds, t) # 0

GetCondition(conds, t) == conds[ConditionIndex(conds, t)]

\* Faulty variants of SetCondition: the condition is always appended; the
\* other conditions take the new timestamp.
SetConditionAppends(conds, t, status, time) ==
    Append(conds, [type |-> t, status |-> status, time |-> time])

SetConditionTouchesAll(conds, t, status, time) ==
    LET i == ConditionIndex(conds, t)
        c == [type |-> t, status |-> status, time |-> time]
        touched == [k \in DOMAIN conds |-> [conds[k] EXCEPT !.time = time]]
    IN  IF i = 0 THEN Append(touched, c) ELSE [touched EXCEPT ![i] = c]

\* Upsert by type: replace status and timestamp when present, append when not.
SetCondition(conds, t, status, time) ==
    LET i == ConditionIndex(conds, t)
        c == [type |-> t, status |-> status, time |-> time]
    IN  IF i = 0 THEN Append(conds, c) ELSE [conds EXCEPT ![i] = c]

\* No set operation yet.
NoSet == [type |-> "", status |-> FALSE, time |-> 0, present |-> FALSE]

(* ------------------------- fleet record -------------------------------- *)
NoRecord == [exists |-> FALSE, rv |-> 0, managementCluster |-> "", byName |-> <<>>]

IndexByName(m, name) ==
    LET S == {i \in DOMAIN m.byName : m.byName[i].name = name}
    IN  IF S = {} THEN 0 ELSE CHOOSE i \in S : \A j \in S : i <= j

IndexOfItem(rn, hcID) ==
    LET S == {i \in DOMAIN rn.items : rn.items[i].hc = hcID}
    IN  IF S = {} THEN 0 ELSE CHOOSE i \in S : \A j \in S : i <= j

\* mfnr.GetNotificationRecordByName(mcID, name): err # nil when absent.
HasRecordByName(m, name) == IndexByName(m, name) # 0

\* mfnr.GetNotificationRecordItem(mcID, name, hcID): err # nil when absent.
HasRecordItem(m, name, hcID) ==
    /\ HasRecordByName(m, name)
    /\ IndexOfItem(m.byName[IndexByName(m, name)], hcID) # 0

GetRecordItem(m, name, hcID) ==
    LET rn == m.byName[IndexByName(m, name)]
    IN  rn.items[IndexOfItem(rn, hcID)]

NewRecordItem(hcID) == [hc |-> hcID, count |-> 0, conditions |-> <<>>]

\* mfnr.AddNotificationRecordItem(hcID, nfr): a new item with an empty
\* condition set in the by-name record of the notification.
AddNotificationRecordItem(m, name, hcID) ==
    LET i == IndexByName(m, name)
    IN  IF i = 0 THEN m
        ELSE [m EXCEPT !.byName[i].items = Append(@, NewRecordItem(hcID))]

\* mfnr.CanBeSent(mcID, name, hcID) for a firing alert, at time t.
CanBeSent(m, name, hcID, t) ==
    LET rn == m.byName[IndexByName(m, name)]
        ri == GetRecordItem(m, name, hcID)
    IN  IF ~HasCondition(ri.conditions, ConditionServiceLogSent) THEN TRUE
        ELSE t - GetCondition(ri.conditions, ConditionServiceLogSent).time >= rn.resendWait

\* mfnr.CanBeSent returns an error when the by-name record or the item of
\* the hosted cluster is not in the record.
CanBeSentFails(m, name, hcID) == ~HasRecordItem(m, name, hcID)

\* mfnr.UpdateNotificationRecordItem(name, hcID) after the send of a firing
\* alert, at time t: the three conditions and the counter.
UpdateNotificationRecordItem(m, name, hcID, t) ==
    LET i  == IndexByName(m, name)
        j  == IndexOfItem(m.byName[i], hcID)
        ri == m.byName[i].items[j]
        c1 == SetCondition(ri.conditions, ConditionAlertFiring, TRUE, t)
        c2 == SetCondition(c1, ConditionAlertResolved, FALSE, t)
        c3 == SetCondition(c2, ConditionServiceLogSent, TRUE, t)
    IN  [m EXCEPT !.byName[i].items[j] =
            [hc |-> hcID, count |-> ri.count + 1, conditions |-> c3]]

(* --------------------- processAlert, local logic ----------------------- *)
\* The object createManagedFleetNotificationRecord builds and returns.
NewManagedFleetNotificationRecord(mcID) ==
    [exists |-> TRUE, rv |-> 0, managementCluster |-> mcID, byName |-> <<>>]

\* addNotificationRecordByName: a by-name record for the template with the
\* template's resend wait, holding one item for the hosted cluster.
addNotificationRecordByName(name, rswait, hcID, m) ==
    AddNotificationRecordItem(
        [m EXCEPT !.byName =
            Append(@, [name |-> name, resendWait |-> rswait, items |-> <<>>])],
        name, hcID)

\* Faulty variant of LocateOrCreate: the item of a new by-name record is
\* added to the copy addNotificationRecordByName returns (lines 237-239, 162),
\* not to the entry appended to the record.
LocateOrCreateOnCopy(m, a) ==
    IF HasRecordByName(m, a.name)
    THEN IF HasRecordItem(m, a.name, a.hc) THEN m
         ELSE AddNotificationRecordItem(m, a.name, a.hc)
    ELSE [m EXCEPT !.byName =
             Append(@, [name |-> a.name, resendWait |-> a.rswait, items |-> <<>>])]

\* Faulty variant of LocateOrCreate: the resend wait of a by-name record
\* that is already there is refreshed from the template.
LocateOrCreateRefreshWait(m, a) ==
    LET m1 == IF HasRecordByName(m, a.name)
              THEN [m EXCEPT !.byName[IndexByName(m, a.name)].resendWait = a.rswait]
              ELSE addNotificationRecordByName(a.name, a.rswait, a.hc, m)
    IN  IF HasRecordItem(m1, a.name, a.hc) THEN m1
        ELSE AddNotificationRecordItem(m1, a.name, a.hc)

\* Lines 148-166: locate or create the by-name record, then the item.
LocateOrCreate(m, a) ==
    LET m1 == IF HasRecordByName(m, a.name) THEN m
              ELSE addNotificationRecordByName(a.name, a.rswait, a.hc, m)
    IN  IF HasRecordItem(m1, a.name, a.hc) THEN m1
        ELSE AddNotificationRecordItem(m1, a.name, a.hc)

\* What the server stores for a created object: its first resource version
\* and no status.
StoredOnCreate(obj) == [obj EXCEPT !.rv = 1, !.managementCluster = "", !.byName = <<>>]

\* Faulty variant of NeedsInitialStatus: every record is taken to lack a
\* status, so its ledger is reset on each invocation.
NeedsInitialStatusAlways(m) == TRUE

\* Line 134: the record has no status yet.
NeedsInitialStatus(m) == m.managementCluster = ""

\* Lines 136-137: the initial status.
InitialStatus(m, mcID) == [m EXCEPT !.managementCluster = mcID, !.byName = <<>>]

\* Faulty variant of AfterGet: the IsNotFound test of line 120 is missing,
\* so any Get error leads to Create.
AfterGetNoFetchCheck(outcome) ==
    IF outcome = "found" THEN "status" ELSE "create"

\* Lines 119-130: what follows h.c.Get.
AfterGet(outcome) ==
    CASE outcome = "found"    -> "status"
      [] outcome = "notfound" -> "create"
      [] OTHER                -> "done"

\* Faulty variants of AfterCanBeSent: the early return of line 175 is
\* missing, or its test is negated.
AfterCanBeSentAlways(canBeSent) == "send"

AfterCanBeSentInverted(canBeSent) == IF canBeSent THEN "done" ELSE "send"

\* Lines 175-180: what follows CanBeSent.
AfterCanBeSent(canBeSent) == IF canBeSent THEN "send" ELSE "done"

\* Faulty variant of AfterSend: the return of line 188 is missing.
AfterSendIgnoreError(outcome) == "update"

\* Lines 185-189: what follows SendServiceLog.
AfterSend(outcome) == IF outcome = "ok" THEN "update" ELSE "done"

\* Faulty variant of InitUpdateError: the return of line 144 is missing.
InitUpdateErrorIgnored(outcome) == "nil"

\* Lines 142-145: the error of the initial status write.
InitUpdateError(outcome) == IF outcome = "ok" THEN "nil" ELSE "err"

\* Faulty variant of LedgerAfterSend: a timestamp already present is kept.
LedgerKeepsTimestamp(m, a, t) ==
    LET ri == m.byName[IndexByName(m, a.name)].items[
                  IndexOfItem(m.byName[IndexByName(m, a.name)], a.hc)]
    IN  UpdateNotificationRecordItem(m, a.name, a.hc,
            IF HasCondition(ri.conditions, ConditionServiceLogSent)
            THEN GetCondition(ri.conditions, ConditionServiceLogSent).time ELSE t)

\* Line 197: the ledger update that follows a successful send, at time t.
LedgerAfterSend(m, a, t) == UpdateNotificationRecordItem(m, a.name, a.hc, t)

\* Faulty variant of UpdateError: the error of the status write is dropped.
UpdateErrorSwallowed(outcome) == "nil"

\* Lines 203-208: the error processAlert returns after the status write.
UpdateError(outcome) == IF outcome = "ok" THEN "nil" ELSE "err"

(* ----------------------- ServeHTTP, local logic ------------------------- *)
MethodPost == "POST"
Methods == {"POST", "GET"}

\* The labels the alert matcher requires.
RequiredLabels == {"alertname", "managed_notification_template", "send_managed_notification"}

\* A label set holds the names of the labels of an alert;
\* "send_managed_notification" stands for that label with the value "true",
\* SendLabelNotTrue for the label with another value.
SendLabelNotTrue == "send_managed_notification=false"

\* The label sets of the alerts of a request: complete, one label short, or
\* complete with a send_managed_notification that is not "true".
LabelSets ==
    {RequiredLabels}
        \cup {RequiredLabels \ {l} : l \in RequiredLabels}
        \cup {(RequiredLabels \ {"send_managed_notification"}) \cup {SendLabelNotTrue}}

\* isValidAlert (pkg/handlers/webhookreceiver.go, not part of this
\* repository's handler source): the three labels are present.
isValidAlert(labels) == RequiredLabels \subseteq labels

\* A faulty ServeHTTP that has lost its method check.
ServeOutcomeNoMethodCheck(method, decodable) ==
    IF ~decodable THEN "400" ELSE "process"

\* Lines 41-53: what ServeHTTP does with a request before any alert is looked at.
ServeOutcome(method, decodable) ==
    IF method # MethodPost THEN "405"
    ELSE IF ~decodable THEN "400"
    ELSE "process"

\* A faulty loop that walks every alert of the batch.
FiringOrResolved(statuses) == DOMAIN statuses

\* Line 76, d.Alerts.Firing(): the positions of the firing alerts of a batch.
Firing(statuses) == {i \in DOMAIN statuses : statuses[i] = "firing"}

\* Lines 85-90: a failed template lookup ends processAMReceiver.
AfterTemplateGet(outcome) == IF outcome = "error" THEN "return" ELSE "validate"

\* A faulty loop that hands every alert to processAlert.
AfterValidationAlways(valid) == "process"

\* Lines 93-96: an alert that is not valid is skipped.
AfterValidation(valid) == IF valid THEN "process" ELSE "continue"

\* Lines 98-101: an error of processAlert is logged, the loop goes on.
AfterProcessAlert(err) == "continue"

\* AMReceiverResponse: the values processAMReceiver returns (lines 87-89, 103).
NoResponse == [status |-> "", code |-> 0, error |-> FALSE]

ResponseOk == [status |-> "ok", code |-> StatusOK, error |-> FALSE]

ResponseNoTemplate ==
    [status |-> "unable to find ManagedFleetNotification",
     code |-> StatusInternalServerError, error |-> TRUE]

\* What is known of one alert of the batch: its labels once the loop has
\* reached it, how the loop left it ("unreached", "notemplate", "skipped",
\* "processing", "nil", "err") and the client calls processAlert made for it.
Unreached == [labels |-> {}, res |-> "unreached", calls |-> 0, sends |-> 0]

NoRequest ==
    [phase |-> "none", method |-> "", decodable |-> FALSE, statuses |-> <<>>,
     idx |-> 0, log |-> <<>>, lookups |-> 0, cancelled |-> FALSE,
     httpCode |-> 0, body |-> "none", response |-> NoResponse]

\* A faulty responseChecker that accepts every 2xx status.
responseCheckerAny2xx(code) == IF code \in 200..299 THEN "nil" ELSE "err"

\* responseChecker (pkg/handlers, not part of this repository's handler
\* source): only 201 Created is a success.
responseChecker(code) == IF code = StatusCreated THEN "nil" ELSE "err"

(* ------------------------------ Init ----------------------------------- *)
NoAlert == [mc |-> "", hc |-> "", name |-> "", rswait |-> 0]

InitHandlers ==
    /\ store = [mc \in MCs |-> NoRecord]
    /\ now = 0
    /\ pc = [w \in Workers |-> "idle"]
    /\ alert = [w \in Workers |-> NoAlert]
    /\ mfnr = [w \in Workers |-> NoRecord]
    /\ fetched = [w \in Workers |-> NoRecord]
    /\ decidedAt = [w \in Workers |-> -1]
    /\ calls = [w \in Workers |-> <<>>]
    /\ result = [w \in Workers |-> "none"]
    /\ atStart = [w \in Workers |-> NoRecord]
    /\ sentAt = [tr \in Triples |-> <<>>]
    /\ created = [mc \in MCs |-> 0]
    /\ started = 0
    /\ template \in [Names -> ResendWaits]
    /\ req = NoRequest
    /\ ledger = <<>>
    /\ lastSet = NoSet

Init ==
    /\ InitHandlers
    /\ ocmStatus = StatusCreated
    /\ checked = "none"

(* ----------------------------- actions --------------------------------- *)
Call(w, op, res) == calls' = [calls EXCEPT ![w] = Append(@, [op |-> op, res |-> res])]

Return(w, r) ==
    /\ pc' = [pc EXCEPT ![w] = "done"]
    /\ result' = [result EXCEPT ![w] = r]

\* The clock advances.
Tick ==
    /\ now < MaxTime
    /\ now' = now + 1
    /\ UNCHANGED <<store, pc, alert, mfnr, fetched, decidedAt, calls, result,
                   atStart, sentAt, created, started, template, serving>>

\* A request is served by the first handler that is free (handlers keep no
\* state from one request to the next, so which free one serves is immaterial).
Busy(w) == pc[w] \notin {"idle", "done"}

Before(v, w) == v = "w1" /\ w = "w2"

\* processAMReceiver hands a firing, actionable alert and its template to
\* processAlert (line 98).
StartAlert(w) ==
    /\ pc[w] \in {"idle", "done"}
    /\ \A v \in Workers : Busy(v) \/ ~Before(v, w)
    /\ started < MaxAlerts
    /\ \E mc \in MCs, hc \in HCs, n \in Names :
          /\ alert' = [alert EXCEPT ![w] =
                [mc |-> mc, hc |-> hc, name |-> n, rswait |-> template[n]]]
          /\ atStart' = [atStart EXCEPT ![w] = store[mc]]
    /\ pc' = [pc EXCEPT ![w] = "get"]
    /\ mfnr' = [mfnr EXCEPT ![w] = NoRecord]
    /\ fetched' = [fetched EXCEPT ![w] = NoRecord]
    /\ decidedAt' = [decidedAt EXCEPT ![w] = -1]
    /\ calls' = [calls EXCEPT ![w] = <<>>]
    /\ result' = [result EXCEPT ![w] = "none"]
    /\ started' = started + 1
    /\ UNCHANGED <<store, now, sentAt, created, template, serving>>

\* Where processAlert goes once it holds a record (line 134).
WithRecord(m) == IF NeedsInitialStatus(m) THEN "init" ELSE "decide"

\* h.c.Get (lines 114-130).
Get(w) ==
    /\ pc[w] = "get"
    /\ \E outcome \in {"found", "notfound", "error"} :
          /\ outcome = "found" => store[alert[w].mc].exists
          /\ outcome = "notfound" => ~store[alert[w].mc].exists
          /\ Call(w, "Get", outcome)
          /\ LET next == AfterGet(outcome)
             IN  CASE next = "status" ->
                        /\ mfnr' = [mfnr EXCEPT ![w] = store[alert[w].mc]]
                        /\ pc' = [pc EXCEPT ![w] = WithRecord(store[alert[w].mc])]
                        /\ UNCHANGED result
                   [] next = "create" ->
                        /\ pc' = [pc EXCEPT ![w] = "create"]
                        /\ UNCHANGED <<mfnr, result>>
                   [] OTHER ->
                        /\ Return(w, "err")
                        /\ UNCHANGED mfnr
    /\ UNCHANGED <<store, now, alert, fetched, decidedAt, atStart,
                   sentAt, created, started, template, serving>>

\* createManagedFleetNotificationRecord (lines 212-228) and its h.c.Create.
\* The record has a status subresource (it is written with Status().Update),
\* so the server stores the new record without the status handed to Create;
\* the local object keeps the status it was built with and takes the
\* server's resource version.
Create(w) ==
    /\ pc[w] = "create"
    /\ LET mc  == alert[w].mc
           obj == NewManagedFleetNotificationRecord(mc)
       IN  \E outcome \in {"ok", "exists", "error"} :
              /\ outcome = "ok" => ~store[mc].exists
              /\ outcome = "exists" => store[mc].exists
              /\ Call(w, "Create", outcome)
              /\ IF outcome = "ok"
                 THEN /\ store' = [store EXCEPT ![mc] = StoredOnCreate(obj)]
                      /\ created' = [created EXCEPT ![mc] = @ + 1]
                      /\ mfnr' = [mfnr EXCEPT ![w] = [obj EXCEPT !.rv = 1]]
                      /\ pc' = [pc EXCEPT ![w] = WithRecord(obj)]
                      /\ UNCHANGED result
                 ELSE /\ Return(w, "err")
                      /\ UNCHANGED <<store, created, mfnr>>
    /\ UNCHANGED <<now, alert, fetched, decidedAt, atStart, sentAt, started, template, serving>>

\* h.c.Status().Update of the local record m by worker w: the store accepts
\* it only when the record is unchanged since it was read.
StatusUpdate(w, m, op, outcome) ==
    LET mc == alert[w].mc
    IN  /\ outcome = "ok" => store[mc].rv = m.rv
        /\ outcome = "conflict" => store[mc].rv # m.rv
        /\ Call(w, op, outcome)
        /\ IF outcome = "ok"
           THEN /\ store' = [store EXCEPT ![mc] = [m EXCEPT !.rv = m.rv + 1]]
                /\ mfnr' = [mfnr EXCEPT ![w] = [m EXCEPT !.rv = m.rv + 1]]
           ELSE /\ mfnr' = [mfnr EXCEPT ![w] = m]
                /\ UNCHANGED store

\* The initial status of a record that has none (lines 132-146).
InitStatus(w) ==
    /\ pc[w] = "init"
    /\ \E outcome \in {"ok", "conflict", "error"} :
          /\ StatusUpdate(w, InitialStatus(mfnr[w], alert[w].mc), "InitUpdate", outcome)
          /\ IF InitUpdateError(outcome) = "nil"
             THEN /\ pc' = [pc EXCEPT ![w] = "decide"]
                  /\ UNCHANGED result
             ELSE Return(w, "err")
    /\ UNCHANGED <<now, alert, fetched, decidedAt, atStart, sentAt,
                   created, started, template, serving>>

\* Locate or create the by-name record and the item, then the resend
\* policy (lines 148-180); an error of CanBeSent is returned (lines 170-173).
Decide(w) ==
    /\ pc[w] = "decide"
    /\ LET m == LocateOrCreate(mfnr[w], alert[w])
           next == AfterCanBeSent(CanBeSent(m, alert[w].name, alert[w].hc, now))
       IN  /\ mfnr' = [mfnr EXCEPT ![w] = m]
           /\ fetched' = [fetched EXCEPT ![w] = mfnr[w]]
           /\ decidedAt' = [decidedAt EXCEPT ![w] = now]
           /\ IF CanBeSentFails(m, alert[w].name, alert[w].hc)
              THEN Return(w, "err")
              ELSE IF next = "send"
              THEN /\ pc' = [pc EXCEPT ![w] = "send"]
                   /\ UNCHANGED result
              ELSE Return(w, "nil")
    /\ UNCHANGED <<store, now, alert, calls, atStart, sentAt, created, started, template, serving>>

\* h.ocm.SendServiceLog (lines 182-189).
Send(w) ==
    /\ pc[w] = "send"
    /\ \E outcome \in {"ok", "error"} :
          /\ Call(w, "Send", outcome)
          /\ IF outcome = "ok"
             THEN sentAt' = [sentAt EXCEPT ![<<alert[w].mc, alert[w].name, alert[w].hc>>] =
                      Append(@, [time |-> now,
                                 wait |-> mfnr[w].byName[IndexByName(mfnr[w], alert[w].name)].resendWait])]
             ELSE UNCHANGED sentAt
          /\ IF AfterSend(outcome) = "update"
             THEN /\ pc' = [pc EXCEPT ![w] = "update"]
                  /\ UNCHANGED result
             ELSE Return(w, "err")
    /\ UNCHANGED <<store, now, alert, mfnr, fetched, decidedAt, atStart,
                   created, started, template, serving>>

\* The ledger update and the status write (lines 197-208).
Update(w) ==
    /\ pc[w] = "update"
    /\ \E outcome \in {"ok", "conflict", "error"} :
          /\ StatusUpdate(w, LedgerAfterSend(mfnr[w], alert[w], now), "Update", outcome)
          /\ Return(w, UpdateError(outcome))
    /\ UNCHANGED <<now, alert, fetched, decidedAt, atStart, sentAt,
                   created, started, template, serving>>

Next ==
    \/ Tick
    \/ \E w \in Workers : StartAlert(w)
    \/ \E w \in Workers : Get(w)
    \/ \E w \in Workers : Create(w)
    \/ \E w \in Workers : InitStatus(w)
    \/ \E w \in Workers : Decide(w)
    \/ \E w \in Workers : Send(w)
    \/ \E w \in Workers : Update(w)

Spec == Init /\ [][Next]_vars

(* ------------------------ reading the call log -------------------------- *)
CallsOf(w, op) == {i \in DOMAIN calls[w] : calls[w][i].op = op}

NumCalls(w, op) == Cardinality(CallsOf(w, op))

HasCall(w, op, res) == \E i \in CallsOf(w, op) : calls[w][i].res = res

Failures == {"error", "conflict", "exists"}

NoCallFailed(w) == \A i \in DOMAIN calls[w] : calls[w][i].res \notin Failures

TripleOf(a) == <<a.mc, a.name, a.hc>>

(* ------------------------ ServeHTTP, one request ------------------------ *)
\* One webhook request is followed from its arrival to its response; it is
\* served by one worker, which runs processAlert for one alert at a time.
\* Serving a request takes no time on the scale of a resend wait (hours):
\* the clock stands still while the request is served.
Handler == "w1"

Statuses == {"firing", "resolved"}

Batches == UNION {[1..n -> Statuses] : n \in 0..MaxBatch}

Min(S) == CHOOSE x \in S : \A y \in S : x <= y

\* The alerts the loop of processAMReceiver has still to visit (line 76).
Pending(r) == {i \in Firing(r.statuses) : i > r.idx}

handlerState == <<store, now, pc, alert, mfnr, fetched, decidedAt, calls, result,
                  atStart, sentAt, created, started, template>>

\* ServeHTTP up to the call of processAMReceiver (lines 39-56).
ServeHTTP ==
    /\ req.phase = "none"
    /\ \E method \in Methods, decodable \in BOOLEAN, statuses \in Batches :
          LET r == [req EXCEPT !.method = method, !.decodable = decodable,
                               !.statuses = statuses,
                               !.log = [i \in DOMAIN statuses |-> Unreached]]
              out == ServeOutcome(method, decodable)
          IN  req' = IF out = "405"
                     THEN [r EXCEPT !.phase = "done", !.body = "text",
                                    !.httpCode = StatusMethodNotAllowed]
                     ELSE IF out = "400"
                     THEN [r EXCEPT !.phase = "done", !.body = "text",
                                    !.httpCode = StatusBadRequest]
                     ELSE [r EXCEPT !.phase = "loop"]
    /\ UNCHANGED <<handlerState, ocmStatus, checked, ledger, lastSet>>

\* The response of processAMReceiver is written (lines 56-61).
Written(r, response) ==
    [r EXCEPT !.phase = "done", !.body = "json", !.httpCode = response.code,
              !.response = response]

\* processAlert is called (lines 98, 108-112).
Invoke(w) ==
    /\ \E mc \in MCs, hc \in HCs, n \in Names :
          /\ alert' = [alert EXCEPT ![w] =
                [mc |-> mc, hc |-> hc, name |-> n, rswait |-> template[n]]]
          /\ atStart' = [atStart EXCEPT ![w] = store[mc]]
    /\ pc' = [pc EXCEPT ![w] = "get"]
    /\ mfnr' = [mfnr EXCEPT ![w] = NoRecord]
    /\ fetched' = [fetched EXCEPT ![w] = NoRecord]
    /\ decidedAt' = [decidedAt EXCEPT ![w] = -1]
    /\ calls' = [calls EXCEPT ![w] = <<>>]
    /\ result' = [result EXCEPT ![w] = "none"]
    /\ started' = started + 1
    /\ UNCHANGED <<store, now, sentAt, created, template>>

\* One turn of the loop of processAMReceiver, up to the call of
\* processAlert (lines 76-98): the template lookup, then isValidAlert.
\* An alert without the template label names no template, so its lookup fails.
NextAlert ==
    /\ req.phase = "loop"
    /\ Pending(req) # {}
    /\ LET i == Min(Pending(req))
       IN  \E labels \in LabelSets, outcome \in {"found", "error"} :
              /\ "managed_notification_template" \notin labels => outcome = "error"
              /\ LET r == [req EXCEPT !.idx = i, !.lookups = @ + 1,
                                      !.log[i].labels = labels]
                 IN  IF AfterTemplateGet(outcome) = "return"
                     THEN /\ req' = Written([r EXCEPT !.log[i].res = "notemplate"],
                                            ResponseNoTemplate)
                          /\ UNCHANGED handlerState
                     ELSE IF AfterValidation(isValidAlert(labels)) = "continue"
                     THEN /\ req' = [r EXCEPT !.log[i].res = "skipped"]
                          /\ UNCHANGED handlerState
                     ELSE /\ req' = [r EXCEPT !.log[i].res = "processing",
                                              !.phase = "alert"]
                          /\ Invoke(Handler)
    /\ UNCHANGED <<ocmStatus, checked, ledger, lastSet>>

\* processAlert has returned (lines 98-101).
AlertDone ==
    /\ req.phase = "alert"
    /\ pc[Handler] = "done"
    /\ req' = [req EXCEPT
          !.log[req.idx] = [@ EXCEPT !.res = result[Handler],
                                     !.calls = Len(calls[Handler]),
                                     !.sends = NumCalls(Handler, "Send")],
          !.phase = IF AfterProcessAlert(result[Handler]) = "continue"
                    THEN "loop" ELSE "done"]
    /\ UNCHANGED <<handlerState, ocmStatus, checked, ledger, lastSet>>

\* The loop is over (line 103) and the response is written (lines 59-61).
Respond ==
    /\ req.phase = "loop"
    /\ Pending(req) = {}
    /\ req' = Written(req, ResponseOk)
    /\ UNCHANGED <<handlerState, ocmStatus, checked, ledger, lastSet>>

\* The context of the request (r.Context(), line 56) is cancelled.
Cancel ==
    /\ req.phase \in {"loop", "alert"}
    /\ ~req.cancelled
    /\ req' = [req EXCEPT !.cancelled = TRUE]
    /\ UNCHANGED <<handlerState, ocmStatus, checked, ledger, lastSet>>

NextBatch ==
    \/ ServeHTTP
    \/ NextAlert
    \/ AlertDone
    \/ Respond
    \/ Cancel
    \/ Get(Handler)
    \/ Create(Handler)
    \/ InitStatus(Handler)
    \/ Decide(Handler)
    \/ Send(Handler)
    \/ Update(Handler)

SpecBatch == Init /\ [][NextBatch]_vars

(* ------------- one request while the template is edited ----------------- *)
\* The resend wait of a ManagedFleetNotification is edited in the cluster;
\* processAMReceiver reads the template anew for every alert (line 81).
EditTemplate ==
    /\ \E n \in Names, rswait \in ResendWaits :
          /\ rswait # template[n]
          /\ template' = [template EXCEPT ![n] = rswait]
    /\ UNCHANGED <<store, now, pc, alert, mfnr, fetched, decidedAt, calls, result,
                   atStart, sentAt, created, started, serving>>

NextTemplate == NextBatch \/ EditTemplate

SpecTemplate == Init /\ [][NextTemplate]_vars

(* --------------------- a condition set, set by set ----------------------- *)
\* One set operation, of any type, status and timestamp, is applied to the
\* condition set.
ApplySetCondition ==
    /\ \E t \in ConditionTypes, st \in BOOLEAN, time \in 0..MaxTime :
          /\ ledger' = SetCondition(ledger, t, st, time)
          /\ lastSet' = [type |-> t, status |-> st, time |-> time,
                         present |-> HasCondition(ledger, t)]
    /\ UNCHANGED <<handlerState, req, ocmStatus, checked>>

SpecConditions == Init /\ [][ApplySetCondition]_vars

(* -------------------- responseChecker, one OCM reply --------------------- *)
InitChecker ==
    /\ InitHandlers
    /\ ocmStatus \in StatusCodes
    /\ checked = "none"

\* SendServiceLog hands the status of the OCM reply to responseChecker.
CheckResponse ==
    /\ checked = "none"
    /\ checked' = responseChecker(ocmStatus)
    /\ UNCHANGED <<handlerState, req, ocmStatus, ledger, lastSet>>

SpecChecker == InitChecker /\ [][CheckResponse]_vars

(* ------------------------------ C1 -------------------------------------- *)
\* C1: for every (management cluster, notification, hosted cluster) triple,
\* two SendServiceLog calls that both succeeded are at least the resend wait
\* apart, under every interleaving of the deliveries.
C1_NoDuplicateInCooldown ==
    \A tr \in Triples : \A i, j \in DOMAIN sentAt[tr] :
        i < j => sentAt[tr][j].time - sentAt[tr][i].time >= sentAt[tr][j].wait

(* ------------------------------ C2 -------------------------------------- *)
\* C2: a status write answered with a conflict is followed by a new Get of
\* the record (re-fetch and re-apply) before processAlert returns.
C2_ConflictIsRetried ==
    \A w \in Workers : \A i \in DOMAIN calls[w] :
        (pc[w] = "done" /\ calls[w][i].res = "conflict")
            => \E j \in CallsOf(w, "Get") : j > i

(* ------------------------------ C3 -------------------------------------- *)
\* The send counter the store holds for a triple (0 when it holds no item).
StoredCount(st, tr) ==
    LET m == st[tr[1]]
    IN  IF HasRecordItem(m, tr[2], tr[3]) THEN GetRecordItem(m, tr[2], tr[3]).count ELSE 0

\* Worker w performs, in this step, the status write that ends an invocation
\* whose SendServiceLog for the triple tr returned no error.
WritesAfterSend(w, tr) ==
    /\ pc[w] = "update" /\ pc'[w] = "done"
    /\ TripleOf(alert[w]) = tr
    /\ calls[w][Len(calls[w])] = [op |-> "Send", res |-> "ok"]
    /\ calls'[w] = Append(calls[w], [op |-> "Update", res |-> "ok"])

\* C3: the stored send counter of an item never decreases, and it grows (by
\* one) only in the status write of an invocation whose SendServiceLog for
\* that item had returned no error just before.
C3_CounterGrowsOnlyAfterSend ==
    [][\A tr \in Triples :
        /\ StoredCount(store', tr) >= StoredCount(store, tr)
        /\ StoredCount(store', tr) > StoredCount(store, tr)
              => /\ StoredCount(store', tr) = StoredCount(store, tr) + 1
                 /\ \E w \in Workers : WritesAfterSend(w, tr)]_vars

\* C3 witness: an item was counted twice (sent, then sent again).
C3_Witness == \E tr \in Triples : StoredCount(store, tr) = 2

(* ------------------------------ C4 -------------------------------------- *)
SendFailed(w) == HasCall(w, "Send", "error")

\* The successful store writes of worker w in this invocation.
WritesOf(w) ==
    {i \in DOMAIN calls[w] :
        calls[w][i].op \in {"Create", "InitUpdate", "Update"} /\ calls[w][i].res = "ok"}

\* C4 as stated: after a failed SendServiceLog, processAlert returns an
\* error and the stored record is what it was when processAlert was called.
C4_StoreUnchangedOnSendError ==
    \A w \in Workers :
        (pc[w] = "done" /\ SendFailed(w))
            => result[w] = "err" /\ store[alert[w].mc] = atStart[w]

\* C4 amended: a failed SendServiceLog ends processAlert with an error and
\* is its last call; the invocation wrote at most the record's creation and
\* its initial empty status, both before the send, and when only this
\* invocation wrote the record the stored ledger (by-name records, items,
\* counters, conditions) is what it was when processAlert was called.
C4_SendErrorLeavesLedger ==
    \A w \in Workers :
        SendFailed(w) =>
            /\ pc[w] = "done" /\ result[w] = "err"
            /\ calls[w][Len(calls[w])] = [op |-> "Send", res |-> "error"]
            /\ \A i \in WritesOf(w) : calls[w][i].op \in {"Create", "InitUpdate"}
            /\ store[alert[w].mc].rv = atStart[w].rv + Cardinality(WritesOf(w))
                  => store[alert[w].mc].byName = atStart[w].byName

\* C4 witness: a send failed on a record that already held a ledger, which
\* the store still holds unchanged.
C4_Witness ==
    \E w \in Workers :
        /\ pc[w] = "done" /\ SendFailed(w)
        /\ atStart[w].byName # <<>>
        /\ store[alert[w].mc] = atStart[w]

(* ------------------------------ C5 -------------------------------------- *)
UpdateFailed(w) == HasCall(w, "Update", "error") \/ HasCall(w, "Update", "conflict")

\* C5: when the status write after a successful SendServiceLog fails,
\* processAlert returns an error and SendServiceLog was called exactly
\* once, successfully: the send stays recorded and the failed write is the
\* last call.
C5_UpdateErrorAfterOneSend ==
    \A w \in Workers :
        UpdateFailed(w) =>
            /\ pc[w] = "done" /\ result[w] = "err"
            /\ NumCalls(w, "Send") = 1 /\ HasCall(w, "Send", "ok")
            /\ CallsOf(w, "Update") = {Len(calls[w])}
            /\ CallsOf(w, "Send") = {Len(calls[w]) - 1}
            /\ sentAt[TripleOf(alert[w])] # <<>>

\* C5 witness: an invocation ended on a failed status write after its send.
C5_Witness ==
    \E w \in Workers : pc[w] = "done" /\ HasCall(w, "Update", "error") /\ HasCall(w, "Send", "ok")

(* ------------------------ the policy's cases ---------------------------- *)
Decided(w) == decidedAt[w] >= 0

\* The record worker w held when it reached the policy has a
\* notification-sent condition for the alert's template and hosted cluster.
HadSentEntry(w) ==
    /\ HasRecordItem(fetched[w], alert[w].name, alert[w].hc)
    /\ HasCondition(GetRecordItem(fetched[w], alert[w].name, alert[w].hc).conditions,
                    ConditionServiceLogSent)

\* Time from that condition's timestamp to the evaluation of the policy.
SinceSent(w) ==
    decidedAt[w]
      - GetCondition(GetRecordItem(fetched[w], alert[w].name, alert[w].hc).conditions,
                     ConditionServiceLogSent).time

\* The resend wait of the by-name record worker w held.
RecordedWait(w) == fetched[w].byName[IndexByName(fetched[w], alert[w].name)].resendWait

(* ------------------------------ C6 -------------------------------------- *)
\* C6: a firing alert whose record holds a notification-sent timestamp less
\* than the resend wait old ends processAlert without error, without a
\* SendServiceLog call and without a status write.
C6_NoSendInsideCooldown ==
    \A w \in Workers :
        (Decided(w) /\ HadSentEntry(w) /\ SinceSent(w) < RecordedWait(w))
            => /\ pc[w] = "done" /\ result[w] = "nil"
               /\ NumCalls(w, "Send") = 0
               /\ WritesOf(w) = {} /\ NumCalls(w, "Update") = 0

\* C6 witness: an invocation met a timestamp younger than the resend wait.
C6_Witness ==
    \E w \in Workers :
        /\ Decided(w) /\ HadSentEntry(w) /\ SinceSent(w) < RecordedWait(w)
        /\ pc[w] = "done"

(* ------------------------------ C7 -------------------------------------- *)
\* The condition of type t is present once in conds, with this status and a
\* timestamp in the interval from..to.
ConditionIs(conds, t, status, from, to) ==
    /\ Cardinality({i \in DOMAIN conds : conds[i].type = t}) = 1
    /\ GetCondition(conds, t).status = status
    /\ GetCondition(conds, t).time >= from
    /\ GetCondition(conds, t).time <= to

\* C7: a firing alert whose record holds a notification-sent timestamp more
\* than the resend wait old, when no call fails, makes processAlert call
\* SendServiceLog exactly once, set the item's conditions to firing=true,
\* resolved=false, sent=true with timestamps taken after the policy was
\* evaluated, count the send, and write the status exactly once.
C7_ResendAfterCooldown ==
    \A w \in Workers :
        (pc[w] = "done" /\ Decided(w) /\ HadSentEntry(w)
            /\ SinceSent(w) > RecordedWait(w) /\ NoCallFailed(w))
        => /\ result[w] = "nil"
           /\ calls[w] = << [op |-> "Get", res |-> "found"],
                            [op |-> "Send", res |-> "ok"],
                            [op |-> "Update", res |-> "ok"] >>
           /\ LET was == GetRecordItem(fetched[w], alert[w].name, alert[w].hc)
                  ri  == GetRecordItem(mfnr[w], alert[w].name, alert[w].hc)
              IN  /\ ConditionIs(ri.conditions, ConditionAlertFiring, TRUE, decidedAt[w], now)
                  /\ ConditionIs(ri.conditions, ConditionAlertResolved, FALSE, decidedAt[w], now)
                  /\ ConditionIs(ri.conditions, ConditionServiceLogSent, TRUE, decidedAt[w], now)
                  /\ ri.count = was.count + 1
           /\ mfnr[w].rv = fetched[w].rv + 1
           /\ store[alert[w].mc].rv = mfnr[w].rv => store[alert[w].mc] = mfnr[w]

\* C7 witness: a resend after the cool-down whose calls all succeeded.
C7_Witness ==
    \E w \in Workers :
        /\ pc[w] = "done" /\ Decided(w) /\ HadSentEntry(w)
        /\ SinceSent(w) > RecordedWait(w) /\ NoCallFailed(w)
        /\ Len(sentAt[TripleOf(alert[w])]) = 2

C9_InitialStatusBeforePolicy ==
    \A w \in Workers :
        (HasCall(w, "Get", "notfound") /\ (Decided(w) \/ NumCalls(w, "Send") > 0))
            => /\ HasCall(w, "Create", "ok")
               /\ HasCall(w, "InitUpdate", "ok")

(* ------------------------------ C10 ------------------------------------- *)
\* C10: at most one record is ever created per management cluster, Create
\* is called only after a Get that answered not-found, and never by an
\* invocation that began when the record already existed.
C10_RecordCreatedOnce ==
    /\ \A mc \in MCs : created[mc] <= 1
    /\ \A w \in Workers :
          NumCalls(w, "Create") > 0 =>
              /\ calls[w][1] = [op |-> "Get", res |-> "notfound"]
              /\ CallsOf(w, "Create") = {2}
              /\ ~atStart[w].exists

\* C10 witness: an invocation found and used the record another one created.
C10_Witness ==
    \E w \in Workers :
        /\ atStart[w].exists /\ created[alert[w].mc] = 1
        /\ HasCall(w, "Get", "found") /\ Decided(w)

(* ------------------------ reading the request log ----------------------- *)
Responded == req.phase = "done"

WellFormed == req.method = MethodPost /\ req.decodable

Positions == DOMAIN req.statuses

IsFiring(i) == req.statuses[i] = "firing"

IsResolved(i) == req.statuses[i] = "resolved"

\* How the loop left alert i.
Left(i) == req.log[i].res

LaterFiring(i) == {j \in Positions : j > i /\ IsFiring(j)}

(* ------------------------------ C11 ------------------------------------- *)
\* C11: when the template of one alert of a batch cannot be found, that
\* alert is skipped and the batch is not aborted: once the request is
\* answered, every firing alert after it has been visited by the loop.
C11_TemplateNotFoundContinues ==
    Responded =>
        \A i \in Positions :
            Left(i) = "notemplate" => \A j \in LaterFiring(i) : Left(j) # "unreached"

(* ------------------------------ C12 ------------------------------------- *)
\* C12: every well-formed POST is answered 200 with the JSON body
\* {status "ok", code 200, error null}, whatever happened to its alerts.
C12_WellFormedPostIsOk ==
    (Responded /\ WellFormed) =>
        /\ req.httpCode = StatusOK
        /\ req.body = "json"
        /\ req.response = ResponseOk

(* ------------------------------ C13 ------------------------------------- *)
\* C13: a request that is not a POST is answered 405 and a POST whose body
\* cannot be decoded 400, both with a plain-text body, and nothing else is
\* done for it: no template lookup, no alert visited, no processAlert call,
\* no store or send call.
C13_RejectedRequestDoesNothing ==
    (req.phase # "none" /\ ~WellFormed) =>
        /\ Responded
        /\ req.httpCode = IF req.method # MethodPost
                          THEN StatusMethodNotAllowed ELSE StatusBadRequest
        /\ req.body = "text"
        /\ req.response = NoResponse
        /\ req.lookups = 0
        /\ \A i \in Positions : req.log[i] = Unreached
        /\ started = 0
        /\ calls[Handler] = <<>>
        /\ \A mc \in MCs : store[mc] = NoRecord

\* A GET carrying a decodable batch with a firing alert has been answered 405.
C13_Witness ==
    /\ Responded
    /\ req.method = "GET"
    /\ req.decodable
    /\ req.httpCode = StatusMethodNotAllowed
    /\ \E i \in Positions : IsFiring(i)

\* A POST whose body cannot be decoded has been answered 400.
C13_WitnessBadBody ==
    /\ Responded
    /\ req.method = MethodPost
    /\ ~req.decodable
    /\ req.httpCode = StatusBadRequest

(* ------------------------------ C14 ------------------------------------- *)
\* The alerts the loop has visited that lack one of the required labels.
Visited(i) == Left(i) # "unreached"

LacksLabel(i) ==
    /\ Visited(i)
    /\ ~(RequiredLabels \subseteq req.log[i].labels)
    /\ SendLabelNotTrue \notin req.log[i].labels

SendFor(i) ==
    \/ req.log[i].sends > 0
    \/ /\ req.idx = i
       /\ req.phase = "alert"
       /\ (pc[Handler] = "send" \/ NumCalls(Handler, "Send") > 0)

\* C15: no SendServiceLog call is ever made for a resolved alert whose
\* notification has an empty resolved description, whatever the ledger
\* holds.  (The fleet handler passes "" as the resolved description of
\* every notification, line 184.)
C15_ResolvedAlertIsNeverSent ==
    \A i \in Positions : IsResolved(i) => ~SendFor(i)

Range(seq) == {seq[k] : k \in DOMAIN seq}

\* The items the store holds, and those whose ledger says the alert is firing.
StoredItems ==
    UNION {Range(rn.items) : rn \in UNION {Range(store[mc].byName) : mc \in MCs}}

FiringRecorded(item) ==
    /\ HasCondition(item.conditions, ConditionAlertFiring)
    /\ GetCondition(item.conditions, ConditionAlertFiring).status

\* A request with a resolved alert after a firing one that was sent has
\* been answered; the ledger records the firing alert as sent.
C15_Witness ==
    /\ Responded
    /\ \E item \in StoredItems : FiringRecorded(item)
    /\ \E i \in Positions :
          /\ IsResolved(i)
          /\ \E j \in Positions : j < i /\ req.log[j].sends = 1

(* ------------------------------ C16 ------------------------------------- *)
\* The firing alerts before alert i that were sent and recorded.
SentBefore(i) ==
    {j \in Positions : j < i /\ IsFiring(j) /\ req.log[j].sends = 1 /\ Left(j) = "nil"}

\* No two of them are for the same hosted cluster (the second would be
\* inside the cool-down of the first), so when there are as many as hosted
\* clusters, every item the resolved alert can be about records firing = true.
EveryItemFiringBefore(i) == Cardinality(SentBefore(i)) = Cardinality(Triples)

ResolvedRecorded(item) ==
    /\ HasCondition(item.conditions, ConditionAlertFiring)
    /\ ~GetCondition(item.conditions, ConditionAlertFiring).status
    /\ HasCondition(item.conditions, ConditionAlertResolved)
    /\ GetCondition(item.conditions, ConditionAlertResolved).status
    /\ HasCondition(item.conditions, ConditionServiceLogSent)
    /\ GetCondition(item.conditions, ConditionServiceLogSent).status

\* C16: for a resolved alert whose record has firing = true, exactly one
\* SendServiceLog call is made and the ledger of its item becomes
\* (firing = false, resolved = true, sent = true).
C16_ResolvedAfterFiringIsSent ==
    Responded =>
        \A i \in Positions :
            (IsResolved(i) /\ EveryItemFiringBefore(i)) =>
                /\ req.log[i].sends = 1
                /\ \E item \in StoredItems : ResolvedRecorded(item)

(* ------------------------------ C17 ------------------------------------- *)
\* C17: responseChecker returns no error for status 201 and an error for
\* every other status, 200, 400, 401, 403 and 500 among them.
C17_Only201IsSuccess ==
    checked # "none" =>
        /\ ocmStatus = StatusCreated => checked = "nil"
        /\ ocmStatus # StatusCreated => checked = "err"
        /\ ocmStatus \in {200, 400, 401, 403, 500} => checked = "err"

\* responseChecker has answered for a 200 reply.
C17_Witness == checked = "err" /\ ocmStatus = StatusOK

\* responseChecker has answered for a 201 reply.
C17_WitnessCreated == checked = "nil" /\ ocmStatus = StatusCreated

(* ------------------------------ C18 ------------------------------------- *)
\* C18: once the context of the request is cancelled, no record get,
\* create or update and no SendServiceLog call is started for the request.
C18_NoCallStartsAfterCancel ==
    [][req.cancelled => Len(calls'[Handler]) <= Len(calls[Handler])]_vars

(* ------------------------------ C19 ------------------------------------- *)
\* C19: the firing alerts of a batch are processed one after another, in
\* order, and when processAlert returns an error for one of them, every
\* later firing alert of the batch is still processed.
C19_LaterAlertsProcessedAfterError ==
    /\ \A j, k \in Positions :
          (IsFiring(j) /\ j < k /\ Visited(k)) => (Visited(j) /\ Left(j) # "processing")
    /\ Responded =>
          \A i \in Positions :
              Left(i) = "err" => \A j \in LaterFiring(i) : Visited(j)

(* ------------------------------ C20 ------------------------------------- *)
\* C20: a resolved alert whose record does not have firing = true causes
\* no SendServiceLog call and no error: the fleet handler never visits a
\* resolved alert, so no call at all is made for it and no processAlert
\* result exists for it.
C20_ResolvedAlertIsNoop ==
    \A i \in Positions :
        IsResolved(i) =>
            /\ req.log[i] = Unreached
            /\ req.phase = "alert" => req.idx # i

\* A request with a resolved alert has been answered 200 while the record
\* exists and no item of it records firing = true (the send for the firing
\* alert before it failed).
C20_Witness ==
    /\ Responded
    /\ req.response = ResponseOk
    /\ \E mc \in MCs : store[mc].exists
    /\ \A item \in StoredItems : ~FiringRecorded(item)
    /\ \E i \in Positions :
          /\ IsResolved(i)
          /\ \E j \in Positions : j < i /\ Left(j) = "err"

(* ------------------------------ C21 ------------------------------------- *)
\* The alerts the loop has visited that are not actionable: the label
\* send_managed_notification is absent or its value is not "true".
NotActionable(i) ==
    /\ Visited(i)
    /\ "send_managed_notification" \notin req.log[i].labels

\* C21: an alert that is not actionable is silently skipped: no store and
\* no send call is made for it, processAlert yields no error for it, and
\* the batch goes on with the next alert: once the request is answered,
\* every firing alert after it has been visited.
C21_NotActionableIsSkipped ==
    \A i \in Positions :
        NotActionable(i) =>
            /\ Left(i) \in {"skipped", "notemplate"}
            /\ req.log[i].calls = 0
            /\ req.log[i].sends = 0
            /\ Responded => \A j \in LaterFiring(i) : Visited(j)

(* ------------------------------ C22 ------------------------------------- *)
\* A failed fetch of the record (other than not found), a failed Create or
\* a failed initial status write.
EarlyFailure(c) ==
    \/ c.op = "Get" /\ c.res = "error"
    \/ c.op = "Create" /\ c.res \in {"error", "exists"}
    \/ c.op = "InitUpdate" /\ c.res \in {"error", "conflict"}

\* C22: when the fetch of the record fails with an error other than not
\* found, or its creation fails, or the initial status write fails,
\* processAlert returns an error, and that call is its last: no
\* SendServiceLog and no further store write follows.
C22_EarlyStoreErrorStops ==
    \A w \in Workers :
        \A i \in DOMAIN calls[w] :
            EarlyFailure(calls[w][i]) =>
                /\ i = Len(calls[w])
                /\ pc[w] = "done"
                /\ result[w] = "err"
                /\ NumCalls(w, "Send") = 0
                /\ NumCalls(w, "Update") = 0

\* processAlert has returned after its initial status write was rejected
\* as a conflict.
C22_Witness ==
    \E w \in Workers :
        /\ pc[w] = "done"
        /\ result[w] = "err"
        /\ HasCall(w, "InitUpdate", "conflict")

(* ------------------------------ C23 ------------------------------------- *)
\* The record worker w fetched lacks the by-name record of the alert's
\* template, or that record lacks the item of the alert's hosted cluster.
NotYetPresent(w) == ~HasRecordItem(fetched[w], alert[w].name, alert[w].hc)

C23_WitnessNewItem ==
    \E w \in Workers :
        /\ Decided(w)
        /\ HasRecordByName(fetched[w], alert[w].name)
        /\ NotYetPresent(w)
        /\ HasCall(w, "Update", "ok")

(* ------------------------------ C24 ------------------------------------- *)
\* The status writes of one invocation: at most one initial write and at
\* most one write of the ledger, the latter exactly when the send succeeded.
StatusWritesBounded(w) ==
    /\ NumCalls(w, "InitUpdate") <= 1
    /\ NumCalls(w, "Update") <= 1
    /\ NumCalls(w, "Update") = 1 => HasCall(w, "Send", "ok")
    /\ (pc[w] = "done" /\ HasCall(w, "Send", "ok")) => NumCalls(w, "Update") = 1
    /\ NumCalls(w, "Send") = 0 => NumCalls(w, "Update") = 0

\* A step that changes the stored ledger of a record is the status write of
\* a worker whose send succeeded.
LedgerChangeFollowsSend(mc) ==
    store'[mc].byName # store[mc].byName =>
        \E w \in Workers :
            /\ alert[w].mc = mc
            /\ HasCall(w, "Send", "ok")
            /\ calls'[w] = Append(calls[w], [op |-> "Update", res |-> "ok"])

\* C24: a record is never deleted; one processAlert invocation writes the
\* status of the record at most twice, once for the initial empty status
\* and exactly once when a send was performed; without a send the ledger
\* is not changed.
C24_StatusWrittenAtMostTwice ==
    /\ [](\A w \in Workers : StatusWritesBounded(w))
    /\ [][\A mc \in MCs :
             /\ store[mc].exists => store'[mc].exists
             /\ LedgerChangeFollowsSend(mc)]_vars

\* An invocation has written the status twice: the initial status of a
\* record it found without one, then the ledger after its send.
C24_Witness ==
    \E w \in Workers :
        /\ pc[w] = "done"
        /\ HasCall(w, "InitUpdate", "ok")
        /\ HasCall(w, "Send", "ok")
        /\ HasCall(w, "Update", "ok")

(* ------------------------------ C25 ------------------------------------- *)
\* The by-name records of mc before a step are still there after it, with
\* their name and resend wait.
ByNameKept(mc) ==
    \A k \in DOMAIN store[mc].byName :
        /\ k \in DOMAIN store'[mc].byName
        /\ store'[mc].byName[k].name = store[mc].byName[k].name
        /\ store'[mc].byName[k].resendWait = store[mc].byName[k].resendWait

\* A by-name record a step adds carries the resend wait of the template
\* the writing invocation was given.
ByNameFromTemplate(mc) ==
    \A k \in DOMAIN store'[mc].byName :
        k \notin DOMAIN store[mc].byName =>
            \E w \in Workers :
                /\ alert[w].mc = mc
                /\ store'[mc].byName[k].name = alert[w].name
                /\ store'[mc].byName[k].resendWait = alert[w].rswait

\* C25: the resend wait of a by-name record is the one of the template when
\* the record is created, and no later processAlert changes it, one given
\* a template with another resend wait included.
C25_ResendWaitIsFixed ==
    [][\A mc \in MCs : ByNameKept(mc) /\ ByNameFromTemplate(mc)]_vars

\* A later invocation, given a template with another resend wait than the
\* stored by-name record, has written the status.
C25_Witness ==
    /\ pc[Handler] = "done"
    /\ HasCall(Handler, "Get", "found")
    /\ HasCall(Handler, "Update", "ok")
    /\ HasRecordByName(fetched[Handler], alert[Handler].name)
    /\ LET m == store[alert[Handler].mc]
       IN  m.byName[IndexByName(m, alert[Handler].name)].resendWait # alert[Handler].rswait

(* ------------------------------ C26 ------------------------------------- *)
NumOfType(conds, t) == Cardinality({i \in DOMAIN conds : conds[i].type = t})

\* C26: after any sequence of set operations the condition set holds at
\* most one condition per type, and the condition of the type set last
\* carries the status and the timestamp of that operation: setting a type
\* that is present replaces it and appends nothing.
C26_OneConditionPerType ==
    /\ \A t \in ConditionTypes : NumOfType(ledger, t) <= 1
    /\ Len(ledger) <= Cardinality(ConditionTypes)
    /\ lastSet # NoSet =>
          /\ NumOfType(ledger, lastSet.type) = 1
          /\ GetCondition(ledger, lastSet.type).status = lastSet.status
          /\ GetCondition(ledger, lastSet.type).time = lastSet.time

\* A type that was already present has been set, to TRUE at time 1, while
\* the three types are present and another one keeps the timestamp 0.
C26_Witness ==
    /\ Len(ledger) = 3
    /\ lastSet.present
    /\ lastSet.status
    /\ lastSet.time = 1
    /\ \E i \in DOMAIN ledger : ledger[i].type # lastSet.type /\ ledger[i].time = 0

(* ------------------------------ C27 ------------------------------------- *)
\* C27: setting the condition of one type leaves the status and the
\* timestamp of every condition of another type unchanged.
C27_OtherTypesUntouched ==
    [][\A t \in ConditionTypes :
          (t # lastSet'.type /\ HasCondition(ledger, t)) =>
              /\ HasCondition(ledger', t)
              /\ GetCondition(ledger', t) = GetCondition(ledger, t)]_vars

\* A type has been set to TRUE at time 2 while another type keeps the value
\* FALSE it was given at time 0.
C27_Witness ==
    /\ lastSet.present
    /\ lastSet.status
    /\ lastSet.time = 2
    /\ \E i \in DOMAIN ledger :
          /\ ledger[i].type # lastSet.type
          /\ ~ledger[i].status
          /\ ledger[i].time = 0

(* ------------------------------ C28 ------------------------------------- *)
\* A call the store rejected because another worker was first.
Rejected(c) ==
    \/ c.op = "Create" /\ c.res = "exists"
    \/ c.op \in {"InitUpdate", "Update"} /\ c.res = "conflict"

\* C28: when workers process alerts of a management cluster that has no
\* record yet, the record is created once, and a worker whose Create is
\* rejected as already existing, or whose status write is rejected as a
\* conflict, calls SendServiceLog no more in that invocation: the next
\* send by that worker comes after a new Get of the record.
C28_NoSendAfterRejection ==
    /\ \A mc \in MCs :
          /\ created[mc] <= 1
          /\ created[mc] = 1 => store[mc].exists
    /\ \A w \in Workers :
          \A i \in DOMAIN calls[w] :
              Rejected(calls[w][i]) =>
                  /\ pc[w] = "done"
                  /\ result[w] = "err"
                  /\ \A j \in DOMAIN calls[w] : j > i => calls[w][j].op # "Send"

\* Two workers found no record for the same management cluster; one created
\* it, the Create of the other was rejected and it returned without a send.
C28_Witness ==
    \E w, v \in Workers :
        /\ w # v
        /\ alert[w].mc = alert[v].mc
        /\ HasCall(w, "Get", "notfound")
        /\ HasCall(v, "Get", "notfound")
        /\ HasCall(w, "Create", "ok")
        /\ HasCall(v, "Create", "exists")
        /\ pc[v] = "done"
        /\ NumCalls(v, "Send") = 0

=============================================================================
